---------------------------- MODULE Spec2Model ----------------------------
(***************************************************************************)
(* A model of imaproxy.js (the Connection Mediator, the line framer and    *)
(* the capability rewriter) and of plugins/mailonly.js (the mail-folder    *)
(* filter).  Byte strings are TLA+ strings; the regular expressions of the *)
(* source are operators over them.                                         *)
(***************************************************************************)
EXTENDS Integers, Sequences, FiniteSets, TLC

(***************************************************************************)
(* Bounds of the model                                                     *)
(***************************************************************************)
MaxSessions == 2
MaxReads == 2
MaxClients == 1

(***************************************************************************)
(* Strings: the String.prototype operations the source uses                *)
(***************************************************************************)
CRLF == "\r\n"

Ch(s, i) == SubSeq(s, i, i)

Take(s, n) == SubSeq(s, 1, IF n < Len(s) THEN n ELSE Len(s))

Drop(s, n) == SubSeq(s, n + 1, Len(s))

StartsWith(s, p) == Len(p) <= Len(s) /\ SubSeq(s, 1, Len(p)) = p

EndsWith(s, p) == Len(p) <= Len(s) /\ SubSeq(s, Len(s) - Len(p) + 1, Len(s)) = p

\* the positions at which p occurs in s
Occurrences(s, p) == {i \in 1..(Len(s) - Len(p) + 1) : SubSeq(s, i, i + Len(p) - 1) = p}

\* the least element of a set of positions; 0 when it is empty
Least(S) == IF S = {} THEN 0 ELSE CHOOSE i \in S : \A j \in S : i <= j

\* String.prototype.indexOf, 1-based; 0 when p does not occur
IndexOf(s, p) == Least(Occurrences(s, p))

Contains(s, p) == \E i \in 1..(Len(s) - Len(p) + 1) : SubSeq(s, i, i + Len(p) - 1) = p

\* String.prototype.replace with a string pattern: the first occurrence only
ReplaceAt(s, i, n, r) == IF i = 0 THEN s ELSE SubSeq(s, 1, i - 1) \o r \o Drop(s, i + n - 1)

ReplaceFirst(s, p, r) == ReplaceAt(s, IndexOf(s, p), Len(p), r)

LowerAlpha == "abcdefghijklmnopqrstuvwxyz"
UpperAlpha == "ABCDEFGHIJKLMNOPQRSTUVWXYZ"
Letters == {Ch(LowerAlpha, i) : i \in 1..26} \cup {Ch(UpperAlpha, i) : i \in 1..26}
WhiteSpace == {" ", "\t", "\r", "\n"}

UpCharAt(c, i) == IF i = 0 THEN c ELSE Ch(UpperAlpha, i)

UpChar(c) == UpCharAt(c, IndexOf(LowerAlpha, c))

RECURSIVE ToUpper(_)
ToUpper(s) == IF s = "" THEN "" ELSE UpChar(Ch(s, 1)) \o ToUpper(Drop(s, 1))

\* /^[a-z]+$/i
IsAlpha(s) == Len(s) > 0 /\ \A i \in 1..Len(s) : Ch(s, i) \in Letters

RECURSIVE TrimLeft(_)
TrimLeft(s) == IF s # "" /\ Ch(s, 1) \in WhiteSpace THEN TrimLeft(Drop(s, 1)) ELSE s

RECURSIVE TrimRight(_)
TrimRight(s) ==
    IF s # "" /\ Ch(s, Len(s)) \in WhiteSpace THEN TrimRight(Take(s, Len(s) - 1)) ELSE s

Trim(s) == TrimRight(TrimLeft(s))

\* split(/\r?\n/)
RECURSIVE SplitLines(_)
SplitLinesAt(s, i) ==
    IF i = 0 THEN <<s>>
    ELSE <<IF i > 1 /\ Ch(s, i - 1) = "\r" THEN SubSeq(s, 1, i - 2) ELSE SubSeq(s, 1, i - 1)>>
            \o SplitLines(Drop(s, i))

SplitLines(s) == SplitLinesAt(s, IndexOf(s, "\n"))

RECURSIVE SkipSpaces(_)
SkipSpaces(s) == IF s # "" /\ Ch(s, 1) = " " THEN SkipSpaces(Drop(s, 1)) ELSE s

\* split(/ +/)
RECURSIVE SplitSpaces(_)
SplitSpacesAt(s, i) ==
    IF i = 0 THEN <<s>>
    ELSE <<SubSeq(s, 1, i - 1)>> \o SplitSpaces(SkipSpaces(Drop(s, i)))

SplitSpaces(s) == SplitSpacesAt(s, IndexOf(s, " "))

\* Array.prototype.join
RECURSIVE Join(_, _)
Join(seq, sep) ==
    IF Len(seq) = 0 THEN ""
    ELSE IF Len(seq) = 1 THEN seq[1]
    ELSE seq[1] \o sep \o Join(Tail(seq), sep)
(***************************************************************************)
(* imaproxy.js: parseIMAPCommand                                           *)
(***************************************************************************)
ClassifyWindow == 256
SplitTagLimit == 10

\* lines 376-388: the command named by the tokens of the first line
ClassifyTokens(str, lines, tokens) ==
    IF Len(tokens) > 1 /\ IsAlpha(tokens[2])
    THEN [seq |-> tokens[1], command |-> ToUpper(tokens[2]), write |-> TRUE]
    ELSE IF Len(tokens) = 1 /\ IsAlpha(tokens[1])
    THEN [seq |-> "0", command |-> ToUpper(tokens[1]), write |-> TRUE]
    ELSE IF Len(tokens) = 1 /\ Len(lines) = 1 /\ Len(str) < SplitTagLimit
    THEN [seq |-> "0", command |-> "__DATA__", write |-> FALSE]
    ELSE [seq |-> "0", command |-> "__DATA__", write |-> TRUE]

\* lines 390-393: UID X command
UidCommand(cmd, tokens) ==
    IF cmd.command = "UID"
    THEN [cmd EXCEPT !.command =
             "UID " \o (IF Len(tokens) > 2 THEN ToUpper(tokens[3]) ELSE "UNDEFINED")]
    ELSE cmd

ParseTokens(str, lines, tokens) == UidCommand(ClassifyTokens(str, lines, tokens), tokens)

ParseLines(str, lines) == ParseTokens(str, lines, SplitSpaces(lines[1]))

ParseWindow(str) == ParseLines(str, SplitLines(str))

parseIMAPCommand(data) == ParseWindow(Take(data, ClassifyWindow))

(***************************************************************************)
(* lib/imap.js (not among the sources; modelled from the specification,    *)
(* section 4.2)                                                            *)
(***************************************************************************)
Atom(v) == [list |-> FALSE, v |-> v, items |-> <<>>]
ListTok(items) == [list |-> TRUE, v |-> "", items |-> items]

\* the index of the quote closing a quoted string whose content starts at i
\* (a backslash escapes the next character); Len(s) + 1 when it is not closed
RECURSIVE QuoteEnd(_, _)
QuoteEnd(s, i) ==
    IF i > Len(s) THEN Len(s) + 1
    ELSE IF Ch(s, i) = "\\" THEN QuoteEnd(s, i + 2)
    ELSE IF Ch(s, i) = "\"" THEN i
    ELSE QuoteEnd(s, i + 1)

RECURSIVE Unescape(_)
Unescape(s) ==
    IF s = "" THEN ""
    ELSE IF Ch(s, 1) = "\\" /\ Len(s) > 1 THEN Ch(s, 2) \o Unescape(Drop(s, 2))
    ELSE Ch(s, 1) \o Unescape(Drop(s, 1))

\* the end of the atom starting at i: the position before the next space
AtomEndAt(s, i, j) == IF j = 0 THEN Len(s) ELSE i + j - 2

AtomEnd(s, i) == AtomEndAt(s, i, IndexOf(Drop(s, i - 1), " "))

\* the end of the token that starts r: a closing quote, a closing
\* parenthesis, or the last character of an atom
ListEndAt(r, c) == IF c = 0 THEN Len(r) + 1 ELSE c

TokenEnd(r) ==
    IF Ch(r, 1) = "\"" THEN QuoteEnd(r, 2)
    ELSE IF Ch(r, 1) = "(" THEN ListEndAt(r, IndexOf(r, ")"))
    ELSE AtomEnd(r, 1)

\* the atoms and quoted strings of the inside of a parenthesized list
RECURSIVE ListItems(_)
RECURSIVE ListItemsAt(_, _)
ListItemsAt(r, e) ==
    IF r = "" THEN <<>>
    ELSE IF Ch(r, 1) = "\"" THEN <<Unescape(SubSeq(r, 2, e - 1))>> \o ListItems(Drop(r, e))
    ELSE <<SubSeq(r, 1, e)>> \o ListItems(Drop(r, e))

ListItemsFrom(r) ==
    ListItemsAt(r, IF r = "" THEN 0
                   ELSE IF Ch(r, 1) = "\"" THEN QuoteEnd(r, 2) ELSE AtomEnd(r, 1))

ListItems(s) == ListItemsFrom(SkipSpaces(s))

\* the token that starts r and ends at e
TokenAt(r, e) ==
    IF Ch(r, 1) = "\"" THEN Atom(Unescape(SubSeq(r, 2, e - 1)))
    ELSE IF Ch(r, 1) = "(" THEN ListTok(ListItems(SubSeq(r, 2, e - 1)))
    ELSE Atom(SubSeq(r, 1, e))

\* tokens of s after acc; limit = 0 means no limit
RECURSIVE Tokens(_, _, _)
RECURSIVE TokensAt(_, _, _, _)
TokensAt(r, e, limit, acc) ==
    IF r = "" THEN acc
    ELSE IF limit > 0 /\ Len(acc) = limit THEN Append(acc, Atom(r))
    ELSE Tokens(Drop(r, e), limit, Append(acc, TokenAt(r, e)))

TokensFrom(r, limit, acc) == TokensAt(r, IF r = "" THEN 0 ELSE TokenEnd(r), limit, acc)

Tokens(s, limit, acc) == TokensFrom(SkipSpaces(s), limit, acc)

tokenizeData(line, limit) == Tokens(line, limit, <<>>)

\* the pieces of s between separators that stand outside double quotes
RECURSIVE Explode(_, _, _, _)
Explode(s, sep, cur, inq) ==
    IF s = "" THEN <<cur>>
    ELSE IF Ch(s, 1) = "\"" THEN Explode(Drop(s, 1), sep, cur \o Ch(s, 1), ~inq)
    ELSE IF Ch(s, 1) = sep /\ ~inq THEN <<cur>> \o Explode(Drop(s, 1), sep, "", FALSE)
    ELSE Explode(Drop(s, 1), sep, cur \o Ch(s, 1), inq)

explodeQuotedString(line, sep) == Explode(line, sep, "", FALSE)

\* a tagged completion line: <tag> OK|NO|BAD ...
IsCompletionTokens(t) ==
    /\ Len(t) >= 2
    /\ t[1] # ""
    /\ Ch(t[1], 1) \notin {"*", "+"}
    /\ t[2] \in {"OK", "NO", "BAD"}

\* seq = "" and status = "" stand for null
PeelCompletion(all, t) ==
    IF IsCompletionTokens(t)
    THEN [status |-> t[2], seq |-> t[1], lines |-> SubSeq(all, 1, Len(all) - 1)]
    ELSE [status |-> "", seq |-> "", lines |-> IF all = <<"">> THEN <<>> ELSE all]

ResponseOf(all) == PeelCompletion(all, SplitSpaces(all[Len(all)]))

parseResponse(data) == ResponseOf(SplitLines(Trim(data)))


(***************************************************************************)
(* Functions with a finite, changing domain: JavaScript objects and the    *)
(* sparse arrays proc[] and metadata[]                                     *)
(***************************************************************************)
EmptyMap == [k \in {} |-> 0]

Has(m, k) == k \in DOMAIN m

Put(m, k, v) == [j \in DOMAIN m \cup {k} |-> IF j = k THEN v ELSE m[j]]

Delete(m, k) == [j \in DOMAIN m \ {k} |-> m[j]]

(***************************************************************************)
(* The world a handler runs in: the plugin's closure variables, the        *)
(* session's state object, the event object of the current dispatch, and   *)
(* what the handler has emitted and written so far.  event.result = ""     *)
(* stands for an unset result: the mediator tests it for truthiness.       *)
(* thrown: a listener raised an exception, which nothing catches.          *)
(***************************************************************************)
NoEvent == [seq |-> "0", command |-> "", write |-> FALSE, result |-> ""]

Emitted(W, bus, name) ==
    [W EXCEPT !.trace = Append(@, [k |-> "emit", bus |-> bus, name |-> name,
                                   ev |-> W.nev, data |-> ""])]

Written(W, to, data) ==
    [W EXCEPT !.trace = Append(@, [k |-> "write", bus |-> to, name |-> "",
                                   ev |-> W.nev, data |-> data])]

Throw(W) == [W EXCEPT !.thrown = TRUE]

(***************************************************************************)
(* plugins/mailonly.js                                                     *)
(***************************************************************************)
TYPE_ANNOTATION == "/vendor/kolab/folder-type"

\* capabilities[caps[i].split('=')[0]] = ...
CapabilityKey(cap, eq) == IF eq = 0 THEN cap ELSE Take(cap, eq - 1)

\* for (i=2; i < caps.length; i++)
RECURSIVE CapabilityKeys(_, _)
CapabilityKeys(caps, i) ==
    IF i > Len(caps) THEN {}
    ELSE {CapabilityKey(caps[i], IndexOf(caps[i], "="))} \cup CapabilityKeys(caps, i + 1)

parseCapabilities(W, line) ==
    [W EXCEPT !.capabilities = @ \cup CapabilityKeys(explodeQuotedString(line, " "), 3)]

\* /\[CAPABILITY\s/
HasCapabilityBlock(str) == \E w \in WhiteSpace : Contains(str, "[CAPABILITY" \o w)

\* the first of two positions, where 0 stands for none
FirstOf(i, j) == IF i = 0 THEN j ELSE IF j = 0 THEN i ELSE IF i < j THEN i ELSE j

CutAt(line, i, n) == IF i = 0 THEN line ELSE SubSeq(line, 1, i - 1) \o Drop(line, i + n - 1)

\* replace(/\sOK/, '')
StripOK(line) ==
    CutAt(line, FirstOf(FirstOf(IndexOf(line, " OK"), IndexOf(line, "\tOK")),
                        FirstOf(IndexOf(line, "\rOK"), IndexOf(line, "\nOK"))), 3)

\* replace(/\[|\]/i, ''): the first bracket only
StripBracket(line) == CutAt(line, FirstOf(IndexOf(line, "["), IndexOf(line, "]")), 1)

\* lines 64-66
OKCapabilities(W1) ==
    IF W1.capabilities \cap {"SORT", "ANNOTATEMORE", "METADATA"} # {}
    THEN [W1 EXCEPT !.okReg = FALSE]
    ELSE W1

\* lines 62-67; response.lines[0] of an empty list is undefined, and calling
\* its match raises a TypeError
OKResponseLines(W, lines) ==
    IF Len(lines) = 0 THEN Throw(W)
    ELSE IF HasCapabilityBlock(lines[1])
    THEN OKCapabilities(parseCapabilities(W, StripBracket(StripOK(lines[1]))))
    ELSE W

OKResponse(W, id, data) == OKResponseLines(W, parseResponse(data).lines)

\* lines 77-80
capabilityResponseOf(W, response) ==
    IF response.status = "OK"
    THEN IF Len(response.lines) = 0 THEN Throw(W)
         ELSE [parseCapabilities(W, response.lines[1]) EXCEPT !.okReg = FALSE]
    ELSE W

capabilityResponse(W, id, data) == capabilityResponseOf(W, parseResponse(data))

\* the key a token gives when used as a property name or in 'A' + seq
TokKey(tok) == IF tok.list THEN Join(tok.items, ",") ELSE tok.v

\* lines 116-117: listing = { seq: req[0], command: req[1], buffer: [] }
NewListing(req) ==
    [seq |-> IF Len(req) >= 1 THEN TokKey(req[1]) ELSE "undefined",
     command |-> IF Len(req) >= 2 THEN TokKey(req[2]) ELSE "undefined",
     buffer |-> <<>>]

\* lines 119-120
AddListing(job, listing) ==
    [job EXCEPT !.listings = Put(@, "A" \o listing.seq, listing), !.pending = @ + 1]

\* lines 115-121
RECURSIVE RegisterListings(_, _, _)
RegisterListings(job, lines, i) ==
    IF i > Len(lines) THEN job
    ELSE RegisterListings(AddListing(job, NewListing(tokenizeData(lines[i], 2))),
                          lines, i + 1)

\* lines 110-112
JobOf(W, id) ==
    IF Has(W.proc, id) THEN W.proc[id]
    ELSE [buffer |-> "", listings |-> EmptyMap, pending |-> 0]

clientList(W, id, data) ==
    IF "ANNOTATEMORE" \notin W.capabilities /\ "METADATA" \notin W.capabilities
    THEN [W EXCEPT !.cliReg = FALSE]
    ELSE [W EXCEPT !.proc = Put(@, id, RegisterListings(JobOf(W, id),
                                                        SplitLines(Trim(data)), 1)),
                   !.listening = TRUE]

\* lines 413-419
DropListing(W, id, req) ==
    IF req.pending = 0
    THEN [W EXCEPT !.proc = Delete(@, id)]
    ELSE [W EXCEPT !.proc[id] = req]

listingDone(W, id, seq) ==
    IF Has(W.proc, id) /\ Has(W.proc[id].listings, seq)
    THEN DropListing(W, id, [W.proc[id] EXCEPT !.listings = Delete(@, seq),
                                               !.pending = @ - 1])
    ELSE W

\* the filter without its test of the shared namespace
FilterLine_NoSharedTest(line, rec, md, rest) ==
    IF Len(rec) = 0 \/ rec[Len(rec)].list THEN [ok |-> FALSE, list |-> <<>>]
    ELSE IF ~md.defined THEN [ok |-> FALSE, list |-> <<>>]
    ELSE IF \/ ~Has(md.map, rec[Len(rec)].v)
            \/ md.map[rec[Len(rec)].v] \in {"", "mail", "NIL"}
    THEN [rest EXCEPT !.list = <<line>> \o @]
    ELSE rest

\* lines 388-393: what one line of the listing adds to the filtered list.
\* md is metadata[id] with defined = FALSE while it is undefined (reading a
\* property of undefined raises a TypeError, as does mbox.match when the last
\* token is missing or a list); ok = FALSE marks the exception
FilterLine(line, rec, md, rest) ==
    IF Len(rec) = 0 \/ rec[Len(rec)].list THEN [ok |-> FALSE, list |-> <<>>]
    ELSE IF rec[Len(rec)].v = "shared" \/ StartsWith(rec[Len(rec)].v, "shared/") THEN rest
    ELSE IF ~md.defined THEN [ok |-> FALSE, list |-> <<>>]
    ELSE IF \/ ~Has(md.map, rec[Len(rec)].v)
            \/ md.map[rec[Len(rec)].v] \in {"", "mail", "NIL"}
    THEN [rest EXCEPT !.list = <<line>> \o @]
    ELSE rest

\* lines 384-394
RECURSIVE FilterList(_, _, _)
FilterList(buffer, md, i) ==
    IF i > Len(buffer) THEN [ok |-> TRUE, list |-> <<>>]
    ELSE FilterLine(buffer[i], tokenizeData(buffer[i], 0), md, FilterList(buffer, md, i + 1))

\* metadata[id], for the parsers and the filter
MetadataOf(W, id) ==
    IF Has(W.metadata, id) THEN [defined |-> TRUE, map |-> W.metadata[id]]
    ELSE [defined |-> FALSE, map |-> EmptyMap]

\* lines 397-401
FilteredResult(W, id, seq, listing, f) ==
    IF ~f.ok THEN Throw(W)
    ELSE listingDone([W EXCEPT !.event.result =
                         Join(f.list, CRLF) \o CRLF \o listing.seq
                             \o " OK Completed (filtered by IMAProxy)\r\n"],
                     id, seq)

sendFilteredList(W, id, seq) ==
    IF Has(W.proc, id) /\ Has(W.proc[id].listings, seq)
    THEN FilteredResult(W, id, seq, W.proc[id].listings[seq],
                        FilterList(W.proc[id].listings[seq].buffer, MetadataOf(W, id), 1))
    ELSE W

\* lines 360-369: the auxiliary request
AuxRequest(W, key) ==
    IF "ANNOTATEMORE" \in W.capabilities
    THEN key \o " GETANNOTATION \"*\" \"" \o TYPE_ANNOTATION
             \o "\" (\"value.priv\" \"value.shared\")\r\n"
    ELSE key \o " GETMETADATA \"*\" (/private" \o TYPE_ANNOTATION
             \o " /shared" \o TYPE_ANNOTATION \o ")\r\n"

\* the completion of a listing that asks the server every time
AnswerListing_AlwaysAsk(W1, id, key) ==
    Written([W1 EXCEPT !.metadata = Put(@, id, EmptyMap)], "server", AuxRequest(W1, key))

\* lines 356-369: metadata[id] !== {} holds for every value of metadata[id]
AnswerListing(W1, id, key) ==
    IF Has(W1.metadata, id)
    THEN sendFilteredList(W1, id, key)
    ELSE Written([W1 EXCEPT !.metadata = Put(@, id, EmptyMap)], "server",
                 AuxRequest(W1, key))

\* lines 337-372; returns the world and the function's result
ProcessLines(W, id, key, lines) ==
    IF ~Has(W.proc[id].listings, key) \/ Len(lines) < 2
    THEN [W |-> listingDone(W, id, key), ret |-> FALSE]
    ELSE [W |-> AnswerListing([W EXCEPT !.proc[id].listings[key].buffer =
                                            @ \o SubSeq(lines, 1, Len(lines) - 1)],
                              id, key),
          ret |-> TRUE]

processListing(W, id, seq, buffer) == ProcessLines(W, id, "A" \o seq, SplitLines(Trim(buffer)))

\* values[i] of the fifth token: an array element, or a character of a string
ValueAt(tok, i) ==
    IF tok.list THEN (IF i + 1 <= Len(tok.items) THEN tok.items[i + 1] ELSE "")
    ELSE IF i + 1 <= Len(tok.v) THEN Ch(tok.v, i + 1) ELSE ""

\* replace(/\..+$/, '')
DotSuffixAt(s, i) == IF i # 0 /\ i < Len(s) THEN Take(s, i - 1) ELSE s

StripDotSuffix(s) == DotSuffixAt(s, IndexOf(s, "."))

\* line 149: values = ann[4] || []
ValuesOf(ann) ==
    IF Len(ann) >= 5 /\ (ann[5].list \/ ann[5].v # "") THEN ann[5] ELSE ListTok(<<>>)

\* line 157: values[1] || values[3] || ''
FirstValue(values) == IF ValueAt(values, 1) # "" THEN ValueAt(values, 1) ELSE ValueAt(values, 3)

\* lines 156-158
StoreAnnotation(md, ann, values) ==
    IF /\ Len(ann) >= 4
       /\ ann[2] = Atom("ANNOTATION")
       /\ ann[4] = Atom(TYPE_ANNOTATION)
       /\ (IF values.list THEN Len(values.items) ELSE Len(values.v)) > 0
    THEN Put(md, TokKey(ann[3]), StripDotSuffix(FirstValue(values)))
    ELSE md

AnnotationOf(md, ann) == StoreAnnotation(md, ann, ValuesOf(ann))

\* lines 147-159
RECURSIVE StoreAnnotations(_, _, _)
StoreAnnotations(md, lines, i) ==
    IF i > Len(lines) THEN md
    ELSE StoreAnnotations(AnnotationOf(md, tokenizeData(lines[i], 5)), lines, i + 1)

(***************************************************************************)
(* The GETMETADATA reply parser of serverResponse.  Positions are 0-based  *)
(* as in the source.  P holds the variables of the loop: the lines, the    *)
(* index i of the line (1-based), the line, tbeg, tend, entry, entries,    *)
(* and done, which tells that the loop over the entries was left.          *)
(***************************************************************************)
MD_PREFIX == "* METADATA "

\* line[k]; "" when k is outside the line (undefined)
At(line, k) == IF k >= 0 /\ k < Len(line) THEN Ch(line, k + 1) ELSE ""

Clamp(line, a) == IF a < 0 THEN 0 ELSE IF a > Len(line) THEN Len(line) ELSE a

Between(line, ca, cb) ==
    IF ca <= cb THEN SubSeq(line, ca + 1, cb) ELSE SubSeq(line, cb + 1, ca)

\* String.prototype.substring: arguments clamped to the string and swapped
\* when the first exceeds the second
Substring(line, a, b) == Between(line, Clamp(line, a), Clamp(line, b))

Digits == "0123456789"

RECURSIVE DigitsValue(_, _)
DigitsValue(s, acc) ==
    IF s = "" \/ IndexOf(Digits, Ch(s, 1)) = 0 THEN acc
    ELSE DigitsValue(Drop(s, 1), 10 * acc + IndexOf(Digits, Ch(s, 1)) - 1)

ParseDigits(t) ==
    IF t = "" \/ IndexOf(Digits, Ch(t, 1)) = 0 THEN [nan |-> TRUE, n |-> 0]
    ELSE [nan |-> FALSE, n |-> DigitsValue(t, 0)]

\* parseInt of an unsigned decimal prefix; nan when there is none
parseInt(s) == ParseDigits(TrimLeft(s))

\* lines 203-213: the folder name and the position after it
RECURSIVE ScanFolder(_, _, _, _)
ScanFolder(line, tbeg, tend, tsep) ==
    IF tend >= Len(line) THEN [folder |-> "", tbeg |-> tbeg]
    ELSE IF At(line, tend) = "\\" THEN ScanFolder(line, tbeg, tend + 2, tsep)
    ELSE IF At(line, tend) = tsep
    THEN [folder |-> Substring(line, tbeg, tend), tbeg |-> tend + 1]
    ELSE ScanFolder(line, tbeg, tend + 1, tsep)

\* lines 231-240: the entry name, up to the next space
RECURSIVE ScanEntry(_)
ScanEntry(P) ==
    IF P.tend >= Len(P.line) THEN P
    ELSE IF At(P.line, P.tend) = " "
    THEN [P EXCEPT !.entry = Substring(P.line, P.tbeg, P.tend),
                   !.tend = P.tend + 1, !.tbeg = P.tend + 1]
    ELSE ScanEntry([P EXCEPT !.tend = @ + 1])

\* the literal's value taken as the rest of its line, whatever its count
LiteralValue_RestOfLine(P, vlen, t) ==
    IF t = Len(P.line)
    THEN IF P.i + 1 > Len(P.lines)
         THEN [P EXCEPT !.i = @ + 1, !.tend = t, !.tbeg = t]
         ELSE [P EXCEPT !.i = @ + 1, !.line = P.lines[P.i + 1],
                        !.entries = Append(@, <<P.entry, P.lines[P.i + 1]>>),
                        !.tend = Len(P.lines[P.i + 1]) + 1,
                        !.tbeg = Len(P.lines[P.i + 1]) + 1,
                        !.done = vlen.nan]
    ELSE [P EXCEPT !.entries = Append(@, <<P.entry, Substring(P.line, t, Len(P.line))>>),
                   !.tend = Len(P.line) + 1, !.tbeg = Len(P.line) + 1,
                   !.done = vlen.nan]

\* lines 253-272: the value of a literal of vlen bytes; t is the position
\* after the closing brace
LiteralValue(P, vlen, t) ==
    IF t = Len(P.line)
    THEN IF P.i + 1 > Len(P.lines)
         THEN [P EXCEPT !.i = @ + 1, !.tend = t, !.tbeg = t]
         ELSE [P EXCEPT !.i = @ + 1, !.line = P.lines[P.i + 1],
                        !.entries = Append(@, <<P.entry,
                             Substring(P.lines[P.i + 1], 0, IF vlen.nan THEN 0 ELSE vlen.n)>>),
                        !.tend = vlen.n + 1, !.tbeg = vlen.n + 1,
                        !.done = vlen.nan]
    ELSE [P EXCEPT !.entries = Append(@, <<P.entry,
                        Substring(P.line, t, IF vlen.nan THEN 0 ELSE t + vlen.n)>>),
                   !.tend = t + vlen.n + 1, !.tbeg = t + vlen.n + 1,
                   !.done = vlen.nan]

\* lines 251-275: a literal {N}, its value on this line or on the next one
RECURSIVE ScanLiteral(_)
ScanLiteral(P) ==
    IF P.tend >= Len(P.line) THEN P
    ELSE IF At(P.line, P.tend) = "}"
    THEN LiteralValue(P, parseInt(Substring(P.line, P.tbeg, P.tend)), P.tend + 1)
    ELSE ScanLiteral([P EXCEPT !.tend = @ + 1])

\* lines 277-287: a bare value, up to the next space or the closing paren
RECURSIVE ScanValue(_, _)
ScanValue(P, eol) ==
    IF P.tend >= Len(P.line) THEN P
    ELSE IF At(P.line, P.tend) = " " \/ At(P.line, P.tend) = eol
    THEN [P EXCEPT !.entries = Append(@, <<P.entry, Substring(P.line, P.tbeg, P.tend)>>),
                   !.tend = P.tend + 1, !.tbeg = P.tend + 1]
    ELSE ScanValue([P EXCEPT !.tend = @ + 1], eol)

\* lines 243-288: the value that follows an entry name
ScanEntryValue(P1, eol) ==
    IF P1.tbeg >= Len(P1.line) THEN [P1 EXCEPT !.done = TRUE]
    ELSE IF At(P1.line, P1.tbeg) = "{"
    THEN ScanLiteral([P1 EXCEPT !.tend = P1.tbeg + 1, !.tbeg = P1.tbeg + 1])
    ELSE ScanValue([P1 EXCEPT !.tend = P1.tbeg], eol)

\* lines 230-289: entry names and values
RECURSIVE ScanEntries(_, _)
ScanEntries(P, eol) ==
    IF P.done \/ ~(P.tend < Len(P.line) /\ At(P.line, P.tend) # eol) THEN P
    ELSE ScanEntries(ScanEntryValue(ScanEntry(P), eol), eol)

\* lines 294-305: the folder type among the entries
RECURSIVE StoreType(_, _, _, _)
StoreType(mdf, folder, entries, j) ==
    IF j > Len(entries) THEN mdf
    ELSE IF entries[j][1] = "/private" \o TYPE_ANNOTATION
            \/ entries[j][1] = "/shared" \o TYPE_ANNOTATION
    THEN IF entries[j][2] = "NIL"
         THEN StoreType(Put(mdf, folder, "NIL"), folder, entries, j + 1)
         ELSE Put(mdf, folder, StripDotSuffix(entries[j][2]))
    ELSE StoreType(mdf, folder, entries, j + 1)

\* lines 291-305
RECURSIVE ParseMetadata(_, _, _, _)
StoreEntries(md, lines, folder, P) ==
    ParseMetadata([defined |-> TRUE, map |-> StoreType(md.map, folder, P.entries, 1)],
                  lines, P.i + 1, P.entry)

\* lines 219-289; tbeg is the position after the folder name
ParseEntries(md, lines, i, entry, line, folder, tbeg) ==
    IF tbeg >= Len(line) \/ (At(line, tbeg) = "(" /\ tbeg + 1 >= Len(line))
    THEN ParseMetadata(md, lines, i + 1, entry)
    ELSE StoreEntries(md, lines, folder,
           ScanEntries([lines |-> lines, i |-> i, line |-> line,
                        tbeg |-> IF At(line, tbeg) = "(" THEN tbeg + 1 ELSE tbeg,
                        tend |-> IF At(line, tbeg) = "(" THEN tbeg + 1 ELSE tbeg,
                        entry |-> entry, entries |-> <<>>, done |-> FALSE],
                       IF At(line, tbeg) = "(" THEN ")" ELSE ""))

\* lines 216: if (tsep === '"') tbeg++
ParseFolder(md, lines, i, entry, line, quoted, f) ==
    ParseEntries(md, lines, i, entry, line, f.folder,
                 IF quoted THEN f.tbeg + 1 ELSE f.tbeg)

\* lines 197-213
ParseQuoted(md, lines, i, entry, line, quoted) ==
    ParseFolder(md, lines, i, entry, line, quoted,
                IF quoted
                THEN ScanFolder(line, Len(MD_PREFIX) + 1, Len(MD_PREFIX) + 1, "\"")
                ELSE ScanFolder(line, Len(MD_PREFIX), Len(MD_PREFIX), " "))

\* lines 177-194
ParseLine(md, lines, i, entry, line) ==
    IF ~StartsWith(line, MD_PREFIX) \/ Len(MD_PREFIX) >= Len(line)
    THEN ParseMetadata(md, lines, i + 1, entry)
    ELSE ParseQuoted(md, lines, i, entry, line, At(line, Len(MD_PREFIX)) = "\"")

\* lines 176-306: md is metadata[id]; i is 1-based here; entry is the variable
\* that outlives the iterations
ParseMetadata(md, lines, i, entry) ==
    IF i > Len(lines) THEN md
    ELSE ParseLine(md, lines, i, entry, lines[i])

\* lines 146-162: the reply to GETANNOTATION; metadata[id] is defined in the loop
AnnotationsStored(W0, id, lines) ==
    [W0 EXCEPT !.metadata = Put(@, id, StoreAnnotations(MetadataOf(W0, id).map, lines, 1)),
               !.proc[id].buffer = ""]

\* lines 170-309: the reply to GETMETADATA
MetadataStored(W0, id, r) ==
    [W0 EXCEPT !.metadata = IF r.defined THEN Put(@, id, r.map) ELSE @,
               !.proc[id].buffer = ""]

AuxCompleted(W0, id, lines) ==
    IF "ANNOTATEMORE" \in W0.capabilities
    THEN AnnotationsStored(W0, id, lines)
    ELSE MetadataStored(W0, id, ParseMetadata(MetadataOf(W0, id), lines, 1, ""))

\* an unrelated response piped through without the bytes buffered before it
ListingProcessed_OriginalOnly(r, id, buf) ==
    IF r.W.thrown THEN r.W
    ELSE [r.W EXCEPT !.event.write = ~r.ret,
                     !.proc = IF Has(@, id) THEN [@ EXCEPT ![id].buffer = ""] ELSE @]

\* lines 320-328: r is what processListing left
ListingProcessed(r, id, buf) ==
    IF r.W.thrown THEN r.W
    ELSE [r.W EXCEPT !.event.write = ~r.ret,
                     !.event.result = IF ~r.ret /\ buf # "" THEN buf ELSE @,
                     !.proc = IF Has(@, id) THEN [@ EXCEPT ![id].buffer = ""] ELSE @]

\* lines 314-330
ResponseBuffered(W1, id, response, buf) ==
    IF response.seq = "" THEN W1
    ELSE ListingProcessed(processListing(W1, id, response.seq, buf), id, buf)

\* lines 141-330
ResponseParsed(W0, id, data, response) ==
    IF /\ response.seq # ""
       /\ Has(W0.proc[id].listings, response.seq)
       /\ ("ANNOTATEMORE" \in W0.capabilities \/ "METADATA" \in W0.capabilities)
    THEN sendFilteredList(
           AuxCompleted(W0, id, SplitLines(Trim(W0.proc[id].buffer \o data))),
           id, response.seq)
    ELSE ResponseBuffered([W0 EXCEPT !.proc[id].buffer = @ \o data], id, response,
                          W0.proc[id].buffer \o data)

\* a handler that holds back the reads of every session while any session
\* has a listing job
serverResponse_AnyJob(W, id, data) ==
    IF W.proc = EmptyMap THEN W ELSE [W EXCEPT !.event.write = FALSE]

\* plugins/mailonly.js, lines 133-332
serverResponse(W, id, data) ==
    IF ~Has(W.proc, id) THEN W
    ELSE ResponseParsed([W EXCEPT !.event.write = FALSE], id, data, parseResponse(data))

\* the disconnect handler that frees the listing job only
clientDisconnect_KeepMetadata(W, id) == [W EXCEPT !.proc = Delete(@, id)]

\* plugins/mailonly.js, lines 426-432
clientDisconnect(W, id) ==
    [W EXCEPT !.proc = Delete(@, id), !.metadata = Delete(@, id)]

(***************************************************************************)
(* imaproxy.js: the capability rewriter (init, lines 94-114)               *)
(***************************************************************************)
CapKeywords == {"SORT", "ANNOTATEMORE", "METADATA"}

\* lines 96-98 and 108-110
StripDeflate(W, data) ==
    IF Contains(data, "COMPRESS=DEFLATE")
    THEN [W EXCEPT !.event.result = ReplaceFirst(data, "COMPRESS=DEFLATE ", "")]
    ELSE W

\* lines 99-101
SeenCapabilities(W1, data) ==
    IF \E k \in CapKeywords : Contains(data, " " \o k)
    THEN [W1 EXCEPT !.stateCaps = TRUE]
    ELSE W1

rewriterCapability(W, data) == SeenCapabilities(StripDeflate(W, data), data)

\* the OK listener without its test for a keyword
rewriterOK_NoKeywordTest(W, data) ==
    IF ~W.stateCaps /\ HasCapabilityBlock(data)
    THEN [StripDeflate(W, data) EXCEPT !.stateCaps = TRUE]
    ELSE W

\* lines 104-114
rewriterOK(W, data) ==
    IF /\ ~W.stateCaps
       /\ HasCapabilityBlock(data)
       /\ \E k \in CapKeywords : \E w \in WhiteSpace : Contains(data, w \o k)
    THEN [StripDeflate(W, data) EXCEPT !.stateCaps = TRUE]
    ELSE W

(***************************************************************************)
(* The two event buses: the listeners registered for a name, in            *)
(* registration order.  An exception leaves emit and the handler at once.  *)
(***************************************************************************)
\* serverEmitter.once('CAPABILITY', capabilityResponse)
OnceCapability(W1, id, data) ==
    IF W1.capOnce THEN capabilityResponse([W1 EXCEPT !.capOnce = FALSE], id, data) ELSE W1

\* serverEmitter.on('OK', OKResponse), until it is removed
OnOK(W1, id, data) == IF W1.okReg THEN OKResponse(W1, id, data) ELSE W1

ServerListeners(W0, id, name, data) ==
    IF name = "CAPABILITY" THEN OnceCapability(rewriterCapability(W0, data), id, data)
    ELSE IF name = "OK" THEN OnOK(rewriterOK(W0, data), id, data)
    ELSE IF name = "__DATA__" /\ W0.listening THEN serverResponse(W0, id, data)
    ELSE W0

EmitServer(W, id, name, data) ==
    IF W.thrown THEN W ELSE ServerListeners(Emitted(W, "server", name), id, name, data)

ClientListeners(W0, id, name, data) ==
    IF name \in {"LSUB", "LIST", "XLIST"} /\ W0.cliReg THEN clientList(W0, id, data)
    ELSE IF name = "__DISCONNECT__" /\ W0.cliReg THEN clientDisconnect(W0, id)
    ELSE W0

EmitClient(W, id, name, data) ==
    IF W.thrown THEN W ELSE ClientListeners(Emitted(W, "client", name), id, name, data)

Emit(W, bus, id, name, data) ==
    IF bus = "client" THEN EmitClient(W, id, name, data) ELSE EmitServer(W, id, name, data)

Peer(bus) == IF bus = "client" THEN "server" ELSE "client"

\* lines 209 and 285: the event object of a dispatch
NewEvent(W, cmd) ==
    [W EXCEPT !.nev = @ + 1,
              !.event = [seq |-> cmd.seq, command |-> cmd.command,
                         write |-> cmd.write, result |-> ""]]

\* lines 211-215 and 286-290: the events of a dispatch, in order
EventNames(command) ==
    IF command = "__DATA__" THEN <<"__DATA__", "__POSTDATA__">>
    ELSE <<command, "__DATA__", "__POSTDATA__">>

RECURSIVE EmitEach(_, _, _, _, _)
EmitEach(W, bus, id, names, data) ==
    IF Len(names) = 0 THEN W
    ELSE EmitEach(Emit(W, bus, id, names[1], data), bus, id, Tail(names), data)

\* lines 217-222 and 292-297
PeerWrite(W3, bus, data) ==
    IF W3.thrown THEN W3
    ELSE IF W3.event.result # "" THEN Written(W3, Peer(bus), W3.event.result)
    ELSE IF W3.event.write THEN Written(W3, Peer(bus), data)
    ELSE W3

\* imaproxy.js, lines 208-222 and 284-297
Dispatch(W, bus, id, cmd, data) ==
    PeerWrite(EmitEach(NewEvent(W, cmd), bus, id, EventNames(cmd.command), data), bus, data)

\* lines 183-206: the lines left for the next pass
RestLines(split, multiline) ==
    IF multiline THEN <<>>
    ELSE IF Len(split) = 2 /\ split[2] = "" THEN <<>>
    ELSE Tail(split)

\* a payload that is the whole read, also when lines are left for a next pass
Payload_WholeRead(W, data, ndata, rest) ==
    IF Len(W.client_buffer) > 0 THEN W.client_buffer \o data ELSE data

\* lines 188-206: the payload of the event
Payload(W, data, ndata, rest) ==
    IF Len(rest) = 0
    THEN (IF Len(W.client_buffer) > 0 THEN W.client_buffer \o data ELSE data)
    ELSE (IF Len(W.client_buffer) > 0 THEN W.client_buffer \o ndata ELSE ndata)

\* imaproxy.js, lines 159-228
RECURSIVE ClientDataHandler(_, _, _)
\* lines 224-227: emit remaining client commands
Reinject(W1, id, rest) ==
    IF Len(rest) > 0 THEN ClientDataHandler(W1, id, Join(rest, CRLF)) ELSE W1

\* lines 177-222
ClientCommand(W, id, data, ndata, rest, cmd) ==
    IF ~cmd.write THEN [W EXCEPT !.client_buffer = @ \o data]
    ELSE Reinject(Dispatch([W EXCEPT !.client_buffer = ""], "client", id, cmd,
                           Payload(W, data, ndata, rest)),
                  id, rest)

\* lines 164-175
ClientLine(W, id, data, ndata, rest) ==
    ClientCommand(W, id, data, ndata, rest, parseIMAPCommand(ndata))

\* lines 160-172
ClientLines(W, id, data, split) ==
    IF EndsWith(split[1], "}")
    THEN ClientLine(W, id, data, data, <<>>)
    ELSE ClientLine(W, id, data, split[1] \o CRLF, RestLines(split, FALSE))

ClientDataHandler(W, id, data) ==
    IF W.thrown THEN W ELSE ClientLines(W, id, data, SplitLines(W.client_buffer \o data))

\* imaproxy.js, lines 275-298
ServerDataHandler(W, id, data) ==
    IF ~W.isConnected THEN W
    ELSE Dispatch(W, "server", id, [parseIMAPCommand(data) EXCEPT !.write = TRUE], data)

(***************************************************************************)
(* State                                                                   *)
(***************************************************************************)
VARIABLES
    ID_COUNT,       \* imaproxy.js: the session ID counter
    connections,    \* imaproxy.js: the open-connections counter
    state,          \* per session: the state object (isConnected, capabilities)
    client_buffer,  \* per session: the carry buffer of the client direction
    sock,           \* per session: the two sockets
    capabilities,   \* mailonly.js: the keys of the capability map
    listeners,      \* mailonly.js: which of its listeners are registered
    proc,           \* mailonly.js: the listing jobs, by session ID
    metadata,       \* mailonly.js: the folder types, by session ID
    wire,           \* per session: bytes under way to and from the IMAP server
    hist,           \* per session: the bytes read and written so far
    trace,          \* what the last handler emitted and wrote, in order
    last,           \* the last handler that ran: its kind, session and input
    crashed,        \* an exception left a handler: the process is gone
    srvKind,        \* what the IMAP server supports
    nreads          \* the number of client reads so far

vars == <<ID_COUNT, connections, state, client_buffer, sock, capabilities, listeners,
          proc, metadata, wire, hist, trace, last, crashed, srvKind, nreads>>

Sessions == 1..MaxSessions
Accepted == 1..ID_COUNT


(***************************************************************************)
(* The IMAP server and the mail client (the environment)                   *)
(***************************************************************************)
ServerKinds == {"annotatemore", "metadata", "plain"}

\* servers with METADATA, by the way they send the folder type of Cal: as a
\* literal with the value on a line of its own ("metadata": event, and
\* "metadata-note": note.), with the closing parenthesis after the value
\* ("metadata-paren"), with the value on the line of the literal marker
\* ("metadata-inline"), and with a value that reads like a reply line
\* ("metadata-nested")
MetadataKinds ==
    {"metadata", "metadata-note", "metadata-paren", "metadata-inline", "metadata-nested"}

ServerCaps(kind) ==
    IF kind = "annotatemore" THEN "ANNOTATEMORE "
    ELSE IF kind \in MetadataKinds THEN "METADATA "
    ELSE ""

Greeting(kind) == "* OK [CAPABILITY " \o ServerCaps(kind) \o "IMAP4rev1] ready\r\n"

\* after the greeting every server also advertises SORT
CapabilityLine(kind) ==
    "* CAPABILITY IMAP4rev1 COMPRESS=DEFLATE SORT " \o ServerCaps(kind) \o "IDLE\r\n"

\* the mailboxes of the server and their folder types
Mailboxes == <<"In", "Cal", "shared/T">>
FolderType(mbox) == IF mbox = "Cal" THEN "event" ELSE "mail"

RECURSIVE ListingLines(_, _)
ListingLines(cmd, i) ==
    IF i > Len(Mailboxes) THEN ""
    ELSE "* " \o cmd \o " () \"/\" " \o Mailboxes[i] \o CRLF \o ListingLines(cmd, i + 1)

RECURSIVE AnnotationLines(_)
AnnotationLines(i) ==
    IF i > Len(Mailboxes) THEN ""
    ELSE "* ANNOTATION " \o Mailboxes[i] \o " \"" \o TYPE_ANNOTATION
            \o "\" (\"value.shared\" \"" \o FolderType(Mailboxes[i]) \o "\")\r\n"
            \o AnnotationLines(i + 1)

Digit(n) == Ch(Digits, n + 1)

\* the folder type of Cal as the server holds it
NestedLine == "* METADATA In (/private" \o TYPE_ANNOTATION \o " event)"

CalType(kind) ==
    IF kind = "metadata-note" THEN "note."
    ELSE IF kind = "metadata-nested" THEN NestedLine
    ELSE FolderType("Cal")

\* the literal marker {N} of a value
Marker(value) ==
    "{" \o (IF Len(value) >= 10 THEN Digit(Len(value) \div 10) ELSE "")
        \o Digit(Len(value) % 10) \o "}"

\* the type of Cal is sent as a literal
CalLiteral(kind) ==
    IF kind = "metadata-inline" THEN Marker(CalType(kind)) \o CalType(kind) \o ")\r\n"
    ELSE IF kind = "metadata-paren"
    THEN Marker(CalType(kind)) \o CRLF \o CalType(kind) \o ")\r\n"
    ELSE Marker(CalType(kind)) \o CRLF \o CalType(kind) \o "\r\n)\r\n"

RECURSIVE MetadataLines(_, _)
MetadataLines(kind, i) ==
    IF i > Len(Mailboxes) THEN ""
    ELSE (IF Mailboxes[i] = "Cal"
          THEN "* METADATA \"Cal\" (/private" \o TYPE_ANNOTATION \o " " \o CalLiteral(kind)
          ELSE "* METADATA " \o Mailboxes[i] \o " (/private" \o TYPE_ANNOTATION \o " "
                  \o FolderType(Mailboxes[i]) \o ")\r\n")
         \o MetadataLines(kind, i + 1)

\* the server's answer to one command line; no mailbox is subscribed, so the
\* answer to LSUB has no untagged line
Response(kind, line) ==
    LET t == SplitSpaces(Trim(line))
        tag == t[1]
        cmd == IF Len(t) >= 2 THEN ToUpper(t[2]) ELSE ""
    IN IF cmd \in {"LIST", "XLIST"}
       THEN ListingLines(cmd, 1) \o tag \o " OK Completed\r\n"
       ELSE IF cmd \in {"NOOP", "LSUB"} THEN tag \o " OK Completed\r\n"
       ELSE IF cmd = "CAPABILITY" THEN CapabilityLine(kind) \o tag \o " OK Completed\r\n"
       ELSE IF cmd = "GETANNOTATION" /\ kind = "annotatemore"
       THEN AnnotationLines(1) \o tag \o " OK Completed\r\n"
       ELSE IF cmd = "GETMETADATA" /\ kind \in MetadataKinds
       THEN MetadataLines(kind, 1) \o tag \o " OK Completed\r\n"
       ELSE tag \o " BAD Unknown command\r\n"

\* how many bytes of the pending server output one read may deliver: all of
\* it, or all but its last TailCut bytes (a TCP segment boundary inside the
\* last line)
TailCut == 16

ReadSizes(pending) ==
    {Len(pending)} \cup (IF Len(pending) > TailCut THEN {Len(pending) - TailCut} ELSE {})

\* the n-th command of a client; tags are unique within the worker
ClientCommands(n) ==
    {"a" \o Digit(n) \o " " \o c \o CRLF : c \in {"LIST \"\" *", "NOOP", "CAPABILITY"}}

\* the commands of a client that also asks for its subscriptions
LifeCommands(n) == ClientCommands(n) \cup {"a" \o Digit(n) \o " LSUB \"\" *\r\n"}

\* the commands of two clients, of which one lists its mailboxes
PairCommands(n) == {"a" \o Digit(n) \o " " \o c \o CRLF : c \in {"LIST \"\" *", "NOOP"}}

\* client reads as TCP may cut them: a tag split from its command, a command
\* cut in two, two commands in one read (ended by CRLF or by bare LF), and a
\* short read that ends with a brace
FrameChunks ==
    {"a1", " NOOP\r\n", "a1 NOOP\r\n", "a1 NO", "OP\r\n",
     "a1 NOOP\r\na2 NOOP\r\n", "a1 NOOP\na2 NOOP\n", "a}"}

\* client reads that hold one, two or three whole command lines, a listing
\* command among them, and a short read that ends with a brace
PipeChunks ==
    {"a1 NOOP\r\n", "a1 NOOP\na2 NOOP\n",
     "a1 NOOP\r\na2 LIST \"\" *\r\na3 NOOP\r\n", "a}"}

(***************************************************************************)
(* Running a handler                                                       *)
(***************************************************************************)
World(id) ==
    [capabilities |-> capabilities,
     listening |-> listeners.listening, okReg |-> listeners.okReg,
     capOnce |-> listeners.capOnce, cliReg |-> listeners.cliReg,
     proc |-> proc, metadata |-> metadata,
     isConnected |-> state[id].isConnected, stateCaps |-> state[id].capabilities,
     client_buffer |-> client_buffer[id],
     event |-> NoEvent, nev |-> 0, trace |-> <<>>, thrown |-> FALSE]

\* the bytes the handler wrote to one socket, in order
RECURSIVE WrittenTo(_, _)
WrittenTo(tr, to) ==
    IF Len(tr) = 0 THEN ""
    ELSE (IF tr[1].k = "write" /\ tr[1].bus = to THEN tr[1].data ELSE "")
            \o WrittenTo(Tail(tr), to)

\* a socket takes writes until it is ended or destroyed
Writable(st) == st = "open"

\* the state after a handler of session id has run and left world W
Commit(W, id) ==
    /\ capabilities' = W.capabilities
    /\ listeners' = [listening |-> W.listening, okReg |-> W.okReg,
                     capOnce |-> W.capOnce, cliReg |-> W.cliReg]
    /\ proc' = W.proc
    /\ metadata' = W.metadata
    /\ state' = [state EXCEPT ![id] = [isConnected |-> W.isConnected,
                                       capabilities |-> W.stateCaps]]
    /\ client_buffer' = [client_buffer EXCEPT ![id] = W.client_buffer]
    /\ trace' = W.trace
    /\ crashed' = W.thrown

Delivered(W, id, to) ==
    IF Writable(sock[id][to]) THEN WrittenTo(W.trace, to) ELSE ""

ApplyWrites(W, id, fromC, fromS, consumed) ==
    /\ wire' = [wire EXCEPT ![id].up = @ \o Delivered(W, id, "server"),
                            ![id].down = Drop(@, consumed)]
    /\ hist' = [hist EXCEPT ![id].fromClient = @ \o fromC,
                            ![id].fromServer = @ \o fromS,
                            ![id].toServer = @ \o Delivered(W, id, "server"),
                            ![id].toClient = @ \o Delivered(W, id, "client")]

Readable(st) == st \in {"open", "ended"}

\* socket.end(): a socket that is open is ended
End(st) == IF st = "open" THEN "ended" ELSE st

\* a handler of session id has run and left world W: its effects on the
\* program's variables and on the sockets
Ran(W, id, fromC, fromS, consumed) == Commit(W, id) /\ ApplyWrites(W, id, fromC, fromS, consumed)

(***************************************************************************)
(* Actions                                                                 *)
(***************************************************************************)
InitProxy ==
    /\ ID_COUNT = 0
    /\ connections = 0
    /\ state = [id \in Sessions |-> [isConnected |-> FALSE, capabilities |-> FALSE]]
    /\ client_buffer = [id \in Sessions |-> ""]
    /\ sock = [id \in Sessions |-> [client |-> "none", server |-> "none"]]
    /\ capabilities = {}
    /\ listeners = [listening |-> FALSE, okReg |-> TRUE, capOnce |-> TRUE, cliReg |-> TRUE]
    /\ proc = EmptyMap
    /\ metadata = EmptyMap
    /\ wire = [id \in Sessions |-> [up |-> "", down |-> ""]]
    /\ hist = [id \in Sessions |-> [fromClient |-> "", toServer |-> "",
                                    fromServer |-> "", toClient |-> ""]]
    /\ trace = <<>>
    /\ last = [kind |-> "init", id |-> 0, data |-> ""]
    /\ crashed = FALSE
    /\ nreads = 0

Init == InitProxy /\ srvKind \in ServerKinds

\* an acceptor that gives every session the ID 1
Accept_FirstId ==
    /\ ~crashed
    /\ ID_COUNT < MaxSessions
    /\ connections' = connections + 1
    /\ ID_COUNT' = ID_COUNT + 1
    /\ state' = [state EXCEPT ![1] = [isConnected |-> TRUE, capabilities |-> FALSE]]
    /\ client_buffer' = [client_buffer EXCEPT ![1] = ""]
    /\ sock' = [sock EXCEPT ![1] = [client |-> "open", server |-> "open"]]
    /\ wire' = [wire EXCEPT ![1] = [up |-> "", down |-> Greeting(srvKind)]]
    /\ trace' = EmitClient(World(1), 1, "__CONNECT__", "").trace
    /\ last' = [kind |-> "accept", id |-> 1, data |-> ""]
    /\ UNCHANGED <<capabilities, listeners, proc, metadata, hist, crashed,
                   srvKind, nreads>>

\* imaproxy.js, clientListener (lines 138-157, 256-273): a client is accepted
Accept ==
    /\ ~crashed
    /\ ID_COUNT < MaxSessions
    /\ connections' = connections + 1
    /\ ID_COUNT' = ID_COUNT + 1
    /\ state' = [state EXCEPT ![ID_COUNT + 1] =
                    [isConnected |-> TRUE, capabilities |-> FALSE]]
    /\ client_buffer' = [client_buffer EXCEPT ![ID_COUNT + 1] = ""]
    /\ sock' = [sock EXCEPT ![ID_COUNT + 1] = [client |-> "open", server |-> "open"]]
    /\ wire' = [wire EXCEPT ![ID_COUNT + 1] = [up |-> "", down |-> Greeting(srvKind)]]
    /\ trace' = EmitClient(World(ID_COUNT + 1), ID_COUNT + 1, "__CONNECT__", "").trace
    /\ last' = [kind |-> "accept", id |-> ID_COUNT + 1, data |-> ""]
    /\ UNCHANGED <<capabilities, listeners, proc, metadata, hist, crashed,
                   srvKind, nreads>>

\* connectionToClient.on("data")
ClientData(id, data) ==
    /\ ~crashed
    /\ id \in Accepted
    /\ Readable(sock[id].client)
    /\ Ran(ClientDataHandler(World(id), id, data), id, data, "", 0)
    /\ last' = [kind |-> "clientData", id |-> id, data |-> data]
    /\ nreads' = nreads + 1
    /\ UNCHANGED <<ID_COUNT, connections, sock, srvKind>>

\* the IMAP server answers the next command line it has received
ServerStep(id) ==
    /\ ~crashed
    /\ id \in Accepted
    /\ Readable(sock[id].server)
    /\ IndexOf(wire[id].up, "\n") > 0
    /\ wire' = [wire EXCEPT ![id].up = Drop(@, IndexOf(wire[id].up, "\n")),
                            ![id].down = @ \o Response(srvKind,
                                Take(wire[id].up, IndexOf(wire[id].up, "\n")))]
    /\ UNCHANGED <<ID_COUNT, connections, state, client_buffer, sock, capabilities,
                   listeners, proc, metadata, hist, trace, last, crashed, srvKind, nreads>>

\* connectionToServer.on("data"): a read of the first n bytes under way
ServerData(id, n) ==
    /\ ~crashed
    /\ id \in Accepted
    /\ Readable(sock[id].server)
    /\ n \in 1..Len(wire[id].down)
    /\ Ran(ServerDataHandler(World(id), id, Take(wire[id].down, n)), id,
           "", Take(wire[id].down, n), n)
    /\ last' = [kind |-> "serverData", id |-> id, data |-> Take(wire[id].down, n)]
    /\ UNCHANGED <<ID_COUNT, connections, sock, srvKind, nreads>>

\* connectionToClient.on("error"); the failed socket is destroyed by the runtime
ClientError(id) ==
    /\ ~crashed
    /\ id \in Accepted
    /\ Readable(sock[id].client)
    /\ IF state[id].isConnected
       THEN /\ state' = [state EXCEPT ![id].isConnected = FALSE]
            /\ sock' = [sock EXCEPT ![id].server = End(@), ![id].client = "destroyed"]
            /\ connections' = connections - 1
       ELSE /\ sock' = [sock EXCEPT ![id].client = "destroyed"]
            /\ UNCHANGED <<state, connections>>
    /\ trace' = <<>>
    /\ last' = [kind |-> "clientError", id |-> id, data |-> ""]
    /\ UNCHANGED <<ID_COUNT, client_buffer, capabilities, listeners, proc, metadata,
                   wire, hist, crashed, srvKind, nreads>>

\* the close handler without its test of the connected flag
ClientClose_AlwaysDecrement(id) ==
    /\ ~crashed
    /\ id \in Accepted
    /\ sock[id].client # "closed"
    /\ Commit(EmitClient([World(id) EXCEPT !.isConnected = FALSE], id, "__DISCONNECT__", ""),
              id)
    /\ sock' = [sock EXCEPT ![id].server = End(@), ![id].client = "closed"]
    /\ connections' = connections - 1
    /\ last' = [kind |-> "clientClose", id |-> id, data |-> ""]
    /\ UNCHANGED <<ID_COUNT, wire, hist, srvKind, nreads>>

\* connectionToClient.on("close")
ClientClose(id) ==
    /\ ~crashed
    /\ id \in Accepted
    /\ sock[id].client # "closed"
    /\ Commit(EmitClient([World(id) EXCEPT !.isConnected = FALSE], id, "__DISCONNECT__", ""),
              id)
    /\ IF state[id].isConnected
       THEN /\ sock' = [sock EXCEPT ![id].server = End(@), ![id].client = "closed"]
            /\ connections' = connections - 1
       ELSE /\ sock' = [sock EXCEPT ![id].client = "closed"]
            /\ UNCHANGED connections
    /\ last' = [kind |-> "clientClose", id |-> id, data |-> ""]
    /\ UNCHANGED <<ID_COUNT, wire, hist, srvKind, nreads>>

\* connectionToServer.on("timeout")
ServerTimeout(id) ==
    /\ ~crashed
    /\ id \in Accepted
    /\ sock[id].server = "open"
    /\ sock' = [sock EXCEPT ![id].server = End(@), ![id].client = End(@)]
    /\ trace' = <<>>
    /\ last' = [kind |-> "serverTimeout", id |-> id, data |-> ""]
    /\ UNCHANGED <<ID_COUNT, connections, state, client_buffer, capabilities, listeners,
                   proc, metadata, wire, hist, crashed, srvKind, nreads>>

\* connectionToServer.on("error")
ServerError(id) ==
    /\ ~crashed
    /\ id \in Accepted
    /\ Readable(sock[id].server)
    /\ sock' = [sock EXCEPT ![id].server = "destroyed", ![id].client = End(@)]
    /\ trace' = <<>>
    /\ last' = [kind |-> "serverError", id |-> id, data |-> ""]
    /\ UNCHANGED <<ID_COUNT, connections, state, client_buffer, capabilities, listeners,
                   proc, metadata, wire, hist, crashed, srvKind, nreads>>

\* connectionToServer.on("close")
ServerClose(id) ==
    /\ ~crashed
    /\ id \in Accepted
    /\ sock[id].server # "closed"
    /\ Commit(EmitServer([World(id) EXCEPT !.isConnected = FALSE], id, "__DISCONNECT__", ""),
              id)
    /\ IF state[id].isConnected
       THEN /\ sock' = [sock EXCEPT ![id].client = End(@), ![id].server = "closed"]
            /\ connections' = connections - 1
       ELSE /\ sock' = [sock EXCEPT ![id].server = "closed"]
            /\ UNCHANGED connections
    /\ last' = [kind |-> "serverClose", id |-> id, data |-> ""]
    /\ UNCHANGED <<ID_COUNT, wire, hist, srvKind, nreads>>

(***************************************************************************)
(* Specifications.  Spec: one client talks to the server through the       *)
(* filter.  SpecFrame: the client's bytes arrive cut and joined by TCP.    *)
(* SpecConn: sessions are opened and their sockets fail and close.         *)
(***************************************************************************)
Next ==
    \/ (ID_COUNT < MaxClients /\ Accept)
    \/ \E id \in Sessions : \E data \in ClientCommands(nreads + 1) :
          nreads < MaxReads /\ ClientData(id, data)
    \/ \E id \in Sessions : ServerStep(id)
    \/ \E id \in Sessions : \E n \in ReadSizes(wire[id].down) : ServerData(id, n)

Spec == Init /\ [][Next]_vars

InitFrame == InitProxy /\ srvKind = "annotatemore"

NextFrame ==
    \/ (ID_COUNT < MaxClients /\ Accept)
    \/ \E id \in Sessions : \E data \in FrameChunks :
          nreads < MaxReads /\ ClientData(id, data)
    \/ \E id \in Sessions : ServerStep(id)
    \/ \E id \in Sessions : \E n \in ReadSizes(wire[id].down) : ServerData(id, n)

SpecFrame == InitFrame /\ [][NextFrame]_vars

\* SpecPipe: the client pipelines its commands, several in one read
NextPipe ==
    \/ (ID_COUNT < MaxClients /\ Accept)
    \/ \E id \in Sessions : \E data \in PipeChunks :
          nreads < MaxReads /\ ClientData(id, data)
    \/ \E id \in Sessions : ServerStep(id)
    \/ \E id \in Sessions : \E n \in ReadSizes(wire[id].down) : ServerData(id, n)

SpecPipe == InitFrame /\ [][NextPipe]_vars

NextConn ==
    \/ Accept
    \/ \E id \in Sessions : ServerData(id, Len(wire[id].down))
    \/ \E id \in Sessions : ClientError(id)
    \/ \E id \in Sessions : ClientClose(id)
    \/ \E id \in Sessions : ServerTimeout(id)
    \/ \E id \in Sessions : ServerError(id)
    \/ \E id \in Sessions : ServerClose(id)

SpecConn == InitFrame /\ [][NextConn]_vars

\* SpecLife: a client lists its mailboxes while the sockets fail and close
InitLife == InitProxy /\ srvKind \in {"annotatemore", "metadata"}

NextLife ==
    \/ (ID_COUNT < MaxClients /\ Accept)
    \/ \E id \in Sessions : \E data \in LifeCommands(nreads + 1) :
          nreads < MaxReads /\ ClientData(id, data)
    \/ \E id \in Sessions : ServerStep(id)
    \/ \E id \in Sessions : ServerData(id, Len(wire[id].down))
    \/ \E id \in Sessions : ClientError(id)
    \/ \E id \in Sessions : ClientClose(id)
    \/ \E id \in Sessions : ServerTimeout(id)
    \/ \E id \in Sessions : ServerError(id)
    \/ \E id \in Sessions : ServerClose(id)

SpecLife == InitLife /\ [][NextLife]_vars

\* SpecPair: two clients of one worker list their mailboxes and leave
NextPair ==
    \/ Accept
    \/ \E id \in Sessions : \E data \in PairCommands(nreads + 1) :
          nreads < MaxReads /\ ClientData(id, data)
    \/ \E id \in Sessions : ServerStep(id)
    \/ \E id \in Sessions : ServerData(id, Len(wire[id].down))
    \/ \E id \in Sessions : ClientClose(id)
    \/ \E id \in Sessions : ServerClose(id)

SpecPair == InitFrame /\ [][NextPair]_vars

\* SpecMeta: the server has METADATA and sends the type of Cal as a literal
InitMeta == InitProxy /\ srvKind \in MetadataKinds

SpecMeta == InitMeta /\ [][Next]_vars

(***************************************************************************)
(* Properties                                                              *)
(***************************************************************************)
\* the handler that ran last was a read of the client (server) socket
ClientRead == last.kind = "clientData"
ServerRead == last.kind = "serverData"

\* C1: in either direction, while no listener sets result or clears write,
\* the bytes written to the peer socket are the bytes read, in the same
\* order, nothing added, changed, duplicated or lost.  Under SpecFrame the
\* client sends no listing command and the server's bytes hold no
\* COMPRESS=DEFLATE, so no listener touches result or write; bytes the
\* framer still holds in the carry buffer count as not yet forwarded.
C1_BytesForwarded ==
    ~crashed =>
        \A id \in Sessions :
            /\ hist[id].toServer \o client_buffer[id] = hist[id].fromClient
            /\ hist[id].toClient = hist[id].fromServer

\* a single token shorter than 10 characters with no line break that is not
\* a command name
IsSplitTag(data) ==
    /\ Len(data) > 0
    /\ Len(data) < SplitTagLimit
    /\ \A i \in 1..Len(data) : Ch(data, i) \notin WhiteSpace
    /\ ~IsAlpha(data)

\* C2: a client read that is a split tag is neither dispatched nor written
\* upstream: the handler of such a read emits nothing and writes nothing.
C2_SplitTagBuffered ==
    (~crashed /\ ClientRead /\ IsSplitTag(last.data)) => trace = <<>>

\* the tags the client uses
Tags == {"a" \o Digit(n) : n \in 1..MaxReads}

\* where in a byte stream a line starts that carries the tag
TaggedLines(stream, tag) ==
    {i \in 1..Len(stream) :
        /\ i = 1 \/ Ch(stream, i - 1) = "\n"
        /\ i + Len(tag) <= Len(stream)
        /\ SubSeq(stream, i, i + Len(tag)) = tag \o " "}

\* the completion line sendFilteredList writes for a listing command
Synthesized(tag) == tag \o " OK Completed (filtered by IMAProxy)\r\n"

\* C3: when the filter answers a listing command with a synthesized
\* response, the client receives exactly one line carrying the command's
\* tag over the whole session: the synthesized OK line.  The server's own
\* completion line for the command is never forwarded in addition.
C3_OneCompletion ==
    \A id \in Sessions : \A tag \in Tags :
        Contains(hist[id].toClient, Synthesized(tag)) =>
            /\ Cardinality(TaggedLines(hist[id].toClient, tag)) = 1
            /\ \A i \in TaggedLines(hist[id].toClient, tag) :
                  StartsWith(Drop(hist[id].toClient, i - 1), Synthesized(tag))

\* C4: no byte of the server's reply to the injected auxiliary request is
\* written to the client: neither an untagged ANNOTATION or METADATA line
\* (the client of the model never asks for one itself) nor the completion
\* line tagged "A" + client tag.
C4_AuxReplyHidden ==
    \A id \in Sessions :
        /\ ~Contains(hist[id].toClient, "* ANNOTATION ")
        /\ ~Contains(hist[id].toClient, "* METADATA ")
        /\ \A tag \in Tags : TaggedLines(hist[id].toClient, "A" \o tag) = {}

\* the responses sendFilteredList synthesized in the handler that ran last:
\* the writes to the client that end with its completion line
IsSynthesized(data) == EndsWith(data, " OK Completed (filtered by IMAProxy)\r\n")

FilteredWrites ==
    {i \in 1..Len(trace) :
        trace[i].k = "write" /\ trace[i].bus = "client" /\ IsSynthesized(trace[i].data)}

\* the listing line of a mailbox, in a listing of any of the three commands
ListsMailbox(data, mbox) == Contains(data, " () \"/\" " \o mbox \o CRLF)

\* C5: every listing result the filter delivers omits every mailbox whose
\* folder type on the server is neither mail nor NIL, for every listing
\* command of the session and every order of events.
C5_NonMailOmitted ==
    \A i \in FilteredWrites :
        \A m \in 1..Len(Mailboxes) :
            FolderType(Mailboxes[m]) \notin {"mail", "NIL"} =>
                ~ListsMailbox(trace[i].data, Mailboxes[m])

\* the mailbox name of a listing line: its last word, without quotes
Unquoted(word) ==
    IF Len(word) >= 2 /\ Ch(word, 1) = "\"" /\ Ch(word, Len(word)) = "\""
    THEN SubSeq(word, 2, Len(word) - 1)
    ELSE word

LastWord(words) == IF Len(words) = 0 THEN "" ELSE Unquoted(words[Len(words)])

InSharedNamespace(mbox) == mbox = "shared" \/ StartsWith(mbox, "shared/")

\* C6: a listing response synthesized by sendFilteredList holds no line
\* whose mailbox name (its last token) is shared or starts with shared/,
\* whatever type the metadata map holds for that mailbox.
C6_NoSharedNamespace ==
    \A i \in FilteredWrites :
        \A l \in 1..Len(SplitLines(trace[i].data)) :
            ~InSharedNamespace(LastWord(SplitSpaces(Trim(SplitLines(trace[i].data)[l]))))

\* a synthesized response was written for a listing that held a mailbox of
\* the shared namespace, of type mail in the metadata map
C6_Witness ==
    /\ FilteredWrites # {}
    /\ ServerRead
    /\ Contains(hist[last.id].fromServer, " () \"/\" shared/T\r\n")
    /\ Has(metadata, last.id)
    /\ Has(metadata[last.id], "shared/T")
    /\ metadata[last.id]["shared/T"] = "mail"

\* C7: for a server read classified as CAPABILITY whose payload contains
\* COMPRESS=DEFLATE, the bytes written to the client for that read do not
\* contain "COMPRESS=DEFLATE ", also while the mail-folder filter has an
\* active listing job on the session.
C7_DeflateStripped ==
    (/\ ~crashed
     /\ ServerRead
     /\ parseIMAPCommand(last.data).command = "CAPABILITY"
     /\ Contains(last.data, "COMPRESS=DEFLATE"))
        => ~Contains(WrittenTo(trace, "client"), "COMPRESS=DEFLATE ")

\* the name of the response a server read starts with: the second word of
\* its first line
ResponseName(data) ==
    IF Len(SplitSpaces(SplitLines(data)[1])) >= 2
    THEN ToUpper(SplitSpaces(SplitLines(data)[1])[2])
    ELSE ""

ListsKeyword(data) ==
    \E k \in {"SORT", "ANNOTATEMORE", "METADATA"} : Contains(data, " " \o k)

\* a CAPABILITY response, or an OK response with a [CAPABILITY block, that
\* lists at least one of SORT, ANNOTATEMORE, METADATA
AdvertisesKeyword(data) ==
    /\ \/ ResponseName(data) = "CAPABILITY"
       \/ ResponseName(data) = "OK" /\ Contains(data, "[CAPABILITY ")
    /\ ListsKeyword(data)

\* one step of a session's capabilities-seen flag
CapabilitiesStep(id) ==
    /\ state[id].capabilities => state'[id].capabilities
    /\ (~state[id].capabilities /\ state'[id].capabilities) =>
          /\ last'.kind = "serverData"
          /\ last'.id = id
          /\ AdvertisesKeyword(last'.data)
    /\ (id \notin Accepted /\ id \in 1..ID_COUNT') => ~state'[id].capabilities

\* C8: a session's capabilities-seen flag starts false, becomes true only in
\* the dispatch of a server CAPABILITY response, or of an OK response with a
\* [CAPABILITY block, that lists at least one of SORT, ANNOTATEMORE,
\* METADATA, and once true never becomes false again.
C8_CapabilitiesSeen ==
    /\ \A id \in Sessions : ~state[id].capabilities
    /\ [][\A id \in Sessions : CapabilitiesStep(id)]_vars

\* the flag of a session is set whose server's greeting lists none of the
\* keywords: a CAPABILITY response has set it
C8_Witness ==
    /\ srvKind = "plain"
    /\ ServerRead
    /\ state[last.id].capabilities
    /\ ResponseName(last.data) = "CAPABILITY"

\* the accepted sessions whose connected flag is still true
Connected == {id \in Accepted : state[id].isConnected}

SocketClosed(id) == sock[id].client = "closed" \/ sock[id].server = "closed"

\* C9: the open-connections counter is the number of accepted sessions
\* whose connected flag is still true; it is never negative, and a session
\* one of whose sockets has closed is counted no longer, for every order of
\* client error, client close, server error, server timeout, server close.
C9_ConnectionsCounted ==
    /\ connections = Cardinality(Connected)
    /\ connections >= 0
    /\ \A id \in Accepted : SocketClosed(id) => ~state[id].isConnected

\* both sockets of a session have closed, after every handler that may
\* decrement has run for it, while another session is still open
C9_Witness ==
    \E id \in Accepted :
        /\ sock[id].client = "closed"
        /\ sock[id].server = "closed"
        /\ connections = 1
        /\ ID_COUNT = 2

\* the bus of the direction the last handler read from
ReadBus == IF ClientRead THEN "client" ELSE "server"

\* the dispatches of the last handler, and the names one of them emitted
Dispatches == {trace[i].ev : i \in 1..Len(trace)}

EmitsOf(e) == SelectSeq(trace, LAMBDA x : x.k = "emit" /\ x.ev = e)

NamesOf(e) == [i \in 1..Len(EmitsOf(e)) |-> EmitsOf(e)[i].name]

\* command, __DATA__, __POSTDATA__, where __DATA__ is not emitted twice
InOrder(names) ==
    \/ names = <<"__DATA__", "__POSTDATA__">>
    \/ /\ Len(names) = 3
       /\ names[1] \notin {"__DATA__", "__POSTDATA__"}
       /\ names[2] = "__DATA__"
       /\ names[3] = "__POSTDATA__"

\* the positions of the writes of a dispatch to the peer socket
PeerWrites(e) ==
    {i \in 1..Len(trace) :
        trace[i].k = "write" /\ trace[i].ev = e /\ trace[i].bus # ReadBus}

\* C10: for every framed read, in either direction, the Mediator emits on
\* that direction's bus and for one event object first the command name,
\* then __DATA__ (not when the command is __DATA__), then __POSTDATA__; the
\* write to the peer socket comes after all three, at most once, and the
\* events of one dispatch are not interleaved with those of another.
C10_DispatchOrder ==
    ((ClientRead \/ ServerRead) /\ trace # <<>>) =>
        /\ \A i \in 1..Len(trace) : trace[i].k = "emit" => trace[i].bus = ReadBus
        /\ \A i \in 1..Len(trace) : \A j \in i..Len(trace) : trace[i].ev <= trace[j].ev
        /\ Dispatches = 1..Cardinality(Dispatches)
        /\ \A e \in Dispatches :
              /\ InOrder(NamesOf(e))
              /\ Cardinality(PeerWrites(e)) <= 1
              /\ \A w \in PeerWrites(e) :
                    \E p \in 1..(w - 1) :
                        /\ trace[p].k = "emit"
                        /\ trace[p].ev = e
                        /\ trace[p].name = "__POSTDATA__"
        /\ ServerRead => trace[1].name = parseIMAPCommand(last.data).command

\* C11: an exception raised by a listener during a dispatch is caught: it
\* never leaves the handler that dispatched the event (crashed is set when
\* one does: the dispatch ends at the raising listener, the events after it
\* are not emitted, the read is not written to the peer, and the uncaught
\* exception ends the worker with both sockets of every session).
C11_ExceptionCaught == ~crashed

\* the data written to one socket by a handler, one element per write
WritesTo(tr, to) ==
    LET w == SelectSeq(tr, LAMBDA x : x.k = "write" /\ x.bus = to)
    IN [i \in 1..Len(w) |-> w[i].data]

\* the event object as the listeners of a dispatch leave it
Listened(bus, id, cmd, data) ==
    EmitEach(NewEvent(World(id), cmd), bus, id, EventNames(cmd.command), data).event

\* what the claim has written to the peer for an event object
Outcome(event, data) ==
    IF event.result # "" THEN <<event.result>>
    ELSE IF event.write THEN <<data>>
    ELSE <<>>

\* a step in which session id dispatched a read of its server (client) socket
ServerDispatch(id) == hist'[id].fromServer # hist[id].fromServer /\ state[id].isConnected
ClientDispatch(id) == hist'[id].fromClient # hist[id].fromClient

OneOutcome(id) ==
    /\ ServerDispatch(id) =>
          WritesTo(trace', "client") =
              Outcome(Listened("server", id,
                               [parseIMAPCommand(last'.data) EXCEPT !.write = TRUE],
                               last'.data),
                      last'.data)
    /\ ClientDispatch(id) =>
          WritesTo(trace', "server") =
              Outcome(Listened("client", id, parseIMAPCommand(last'.data), last'.data),
                      last'.data)

\* C12: after each dispatch, in either direction, what is written to the
\* peer socket is decided by the event object the listeners left: result
\* and only result when a listener set it (also when write was cleared),
\* otherwise the original bytes when write is true, otherwise nothing; the
\* original bytes and a replacement are never both written for one read.
C12_OneOutcome == [][\A id \in Sessions : OneOutcome(id)]_vars

\* an auxiliary request of the filter
IsAuxRequest(data) == Contains(data, " GETANNOTATION ") \/ Contains(data, " GETMETADATA ")

\* C13: once a client LIST/LSUB/XLIST has been dispatched while the
\* capability set held neither ANNOTATEMORE nor METADATA (the only place
\* where the filter's client listeners are removed), the client's commands
\* have reached the server byte-identical, there is no listing job, no
\* auxiliary request has been written, and no listener of the filter is
\* left on the client bus or on the server bus.
C13_Detached ==
    ~listeners.cliReg =>
        /\ \A id \in Accepted : hist[id].toServer = hist[id].fromClient
        /\ \A id \in Accepted : ~IsAuxRequest(hist[id].toServer)
        /\ proc = EmptyMap
        /\ ~listeners.listening
        /\ ~listeners.okReg
        /\ ~listeners.capOnce

\* C14: the folder type of a METADATA reply sent as a literal {N} is stored
\* as exactly the N bytes after the marker (less a dot suffix), whether they
\* stand on the marker's line or on the next one; the value's line is not
\* parsed as a reply line of its own (no other folder gets a type from it);
\* and a listing filtered with the stored type leaves the folder out.
C14_LiteralParsed ==
    \A id \in Accepted :
        Has(metadata, id) =>
            /\ DOMAIN metadata[id] \subseteq {Mailboxes[m] : m \in 1..Len(Mailboxes)}
            /\ \A m \in 1..Len(Mailboxes) :
                  Has(metadata[id], Mailboxes[m]) =>
                      metadata[id][Mailboxes[m]] =
                          IF Mailboxes[m] = "Cal" THEN CalType(srvKind)
                          ELSE FolderType(Mailboxes[m])
            /\ (ServerRead /\ last.id = id /\ Has(metadata[id], "Cal")) =>
                  \A i \in FilteredWrites :
                      /\ ~ListsMailbox(trace[i].data, "Cal")
                      /\ ListsMailbox(trace[i].data, "In")

\* the reply with the value on the next line has been parsed and a listing
\* filtered with it
C14_Witness ==
    /\ srvKind = "metadata-note"
    /\ ServerRead
    /\ FilteredWrites # {}
    /\ Has(metadata, 1)
    /\ Has(metadata[1], "Cal")
    /\ metadata[1]["Cal"] = "note."

\* both sockets of a session have closed
SessionClosed(id) == sock[id].client = "closed" /\ sock[id].server = "closed"

\* C15: after a session's sockets have closed the filter holds neither a
\* listing job nor a metadata map for the session ID, in this state and in
\* every later one, whichever side closed or failed first and whether or
\* not a listing or an auxiliary request was pending.
C15_StateFreed ==
    \A id \in Accepted :
        SessionClosed(id) => ~Has(proc, id) /\ ~Has(metadata, id)

\* the session closed while the reply to its auxiliary request was pending
C15_Witness ==
    /\ SessionClosed(1)
    /\ IsAuxRequest(hist[1].toServer)
    /\ ~Contains(hist[1].toClient, "(filtered by IMAProxy)")
    /\ ~Contains(hist[1].fromServer, "\r\nAa")

\* a step in which a read of session id was handled
ReadOf(id) == hist'[id] # hist[id]

\* C16: what the filter does for a session depends only on that session's
\* own upstream connection: a read handled for one session changes neither
\* the filter's capability set nor its registered listeners as the other
\* sessions of the worker see them.
C16_SessionsIsolated ==
    [][\A id \in Accepted :
          (ReadOf(id) /\ Accepted \ {id} # {}) =>
              /\ capabilities' = capabilities
              /\ listeners' = listeners]_vars

\* C17: once a session's connected flag is false, a read that arrives in
\* either direction is ignored: its handler emits no event and writes to
\* neither socket.  (Only the close and error handlers clear the flag, and
\* each of them becomes the last handler, so a read that is the last handler
\* of a session whose flag is false arrived after the flag was cleared.)
C17_ReadsIgnored ==
    ((ClientRead \/ ServerRead) /\ ~state[last.id].isConnected) => trace = <<>>

\* the number of auxiliary requests in the bytes written upstream
AuxRequests(stream) ==
    Cardinality(Occurrences(stream, " GETANNOTATION "))
        + Cardinality(Occurrences(stream, " GETMETADATA "))

\* C18: over the lifetime of a session the filter writes at most one
\* auxiliary request upstream; every filtered listing the client gets comes
\* after that one request, and a later listing is answered without another.
C18_OneAuxRequest ==
    \A id \in Accepted :
        /\ AuxRequests(hist[id].toServer) <= 1
        /\ Contains(hist[id].toClient, "(filtered by IMAProxy)") =>
              AuxRequests(hist[id].toServer) = 1

\* two listings of one session have been answered after a single request
C18_Witness ==
    /\ Contains(hist[1].toClient, Synthesized("a1"))
    /\ Contains(hist[1].toClient, Synthesized("a2"))
    /\ AuxRequests(hist[1].toServer) = 1

\* the auxiliary request for the listing with a client tag has been written,
\* and the completion of its reply has been read
AuxWritten(id, tag) == Contains(hist[id].toServer, "A" \o tag \o " GET")
AuxReplied(id, tag) == Contains(hist[id].fromServer, "A" \o tag \o " OK Completed\r\n")

\* the handler that ran last wrote upstream while handling a server read
AuxWrittenNow ==
    ServerRead /\ \E i \in 1..Len(trace) : trace[i].k = "write" /\ trace[i].bus = "server"

\* C19: the auxiliary request for a listing is written only after the
\* server's tagged completion of the listing has been read; it carries the
\* tag "A" followed by the listing's client tag; it is GETANNOTATION when
\* ANNOTATEMORE is in the capability set and GETMETADATA otherwise; and
\* until its reply has completed the client gets neither the buffered
\* listing lines nor the server's own completion line of the listing.
C19_AuxAfterCompletion ==
    /\ \A id \in Accepted : \A tag \in Tags :
          AuxWritten(id, tag) => Contains(hist[id].fromServer, tag \o " OK Completed\r\n")
    /\ \A id \in Accepted :
          AuxRequests(hist[id].toServer) = Cardinality({tag \in Tags : AuxWritten(id, tag)})
    /\ \A id \in Accepted :
          /\ Contains(hist[id].toServer, " GETANNOTATION ") => "ANNOTATEMORE" \in capabilities
          /\ Contains(hist[id].toServer, " GETMETADATA ") => "ANNOTATEMORE" \notin capabilities
    /\ AuxWrittenNow => WritesTo(trace, "client") = <<>>
    /\ \A id \in Accepted : \A tag \in Tags :
          (AuxWritten(id, tag) /\ ~AuxReplied(id, tag)) =>
              TaggedLines(hist[id].toClient, tag) = {}

\* a server read of session id is dispatched while the session has a listing
\* job and serverResponse is registered, and the read ends with a tagged
\* response that completes neither an auxiliary request nor a registered
\* listing with untagged lines
Unrelated(id, data, seq) ==
    /\ ServerDispatch(id)
    /\ listeners.listening
    /\ Has(proc, id)
    /\ seq # ""
    /\ ~Has(proc[id].listings, seq)
    /\ \/ ~Has(proc[id].listings, "A" \o seq)
       \/ Len(SplitLines(Trim(proc[id].buffer \o data))) < 2

PipedThrough(id, data, seq) ==
    /\ ~crashed'
    /\ WritesTo(trace', "client") = <<proc[id].buffer \o data>>
    /\ Writable(sock[id].client) =>
          hist'[id].toClient = hist[id].toClient \o proc[id].buffer \o data
    /\ Has(proc', id) => proc'[id].buffer = ""
    /\ state'[id].isConnected
    /\ \A k \in DOMAIN proc[id].listings \ {"A" \o seq} :
          /\ Has(proc', id)
          /\ Has(proc'[id].listings, k)
          /\ proc'[id].listings[k] = proc[id].listings[k]

Listed(id) ==
    {tag \in Tags : \E c \in {" LIST ", " LSUB ", " XLIST "} :
                        Contains(hist[id].fromClient, tag \o c)}

\* C21: a session's listing job exists exactly when at least one listing is
\* registered in it, and its pending counter is the number of registered
\* listings; once every listing command the client sent has been answered
\* with a line carrying its tag, the job is gone (so that server reads of
\* the session are no longer buffered).
C21_JobMatchesListings ==
    \A id \in Accepted :
        /\ Has(proc, id) =>
              /\ DOMAIN proc[id].listings # {}
              /\ proc[id].pending = Cardinality(DOMAIN proc[id].listings)
        /\ (\A tag \in Listed(id) : TaggedLines(hist[id].toClient, tag) # {}) =>
              ~Has(proc, id)

\* the filter holds server bytes of a session in its buffer
Buffered(id) == Has(proc, id) /\ proc[id].buffer # ""

\* the server can answer a command line of the session; the proxy can read
\* bytes the server has sent
ServerStepEnabled(id) ==
    /\ ~crashed
    /\ id \in Accepted
    /\ Readable(sock[id].server)
    /\ IndexOf(wire[id].up, "\n") > 0

ServerDataEnabled(id) ==
    /\ ~crashed
    /\ id \in Accepted
    /\ Readable(sock[id].server)
    /\ wire[id].down # ""

\* nothing is left to come from the server: it has answered, in order, every
\* command written to it, and the proxy has read every byte of its answers
\* (or the proxy has stopped)
Quiet(id) == ~ServerStepEnabled(id) /\ ~ServerDataEnabled(id)

\* C22: when the server answers, in order, every command written to it and
\* the session stays connected, every LIST/LSUB/XLIST the client has sent is
\* eventually followed by a line with its tag written to the client, and no
\* server bytes stay in the filter's buffer forever.  Every run of Spec with
\* such a server comes to a state with nothing left to come from it, where
\* the client may stay silent for ever: in such a state every listing
\* command has its tagged line and the buffer is empty.
C22_ListingCompletes ==
    \A id \in Accepted :
        Quiet(id) =>
            /\ \A tag \in Listed(id) : TaggedLines(hist[id].toClient, tag) # {}
            /\ ~Buffered(id)

\* the session has ended: its flag is cleared and both sockets are closed
SessionEnded(id) ==
    /\ ~state[id].isConnected
    /\ sock[id] = [client |-> "closed", server |-> "closed"]

\* a socket that has been ended or destroyed is closed next: the runtime
\* emits "close" after destroy(), and after end() once the peer has closed
Closing(st) == st \in {"ended", "destroyed"}

\* a close handler of the session is due and can run
CloseDue(id) ==
    /\ ~crashed
    /\ Closing(sock[id].client) \/ Closing(sock[id].server)

\* C23: an error on the client socket leaves it destroyed and the server
\* socket no longer open; an error on the server socket leaves it destroyed
\* and the client socket no longer open; an upstream timeout leaves neither
\* socket open; and a session whose sockets are both no longer open comes to
\* its end, with the connected flag cleared and both sockets closed: until
\* then a close handler is due and can run.
C23_FailureEndsSession ==
    [][\A id \in Sessions :
          /\ ClientError(id) =>
                sock'[id].client = "destroyed" /\ sock'[id].server # "open"
          /\ ServerError(id) =>
                sock'[id].server = "destroyed" /\ sock'[id].client # "open"
          /\ ServerTimeout(id) =>
                sock'[id].server # "open" /\ sock'[id].client # "open"
          /\ (id \in Accepted /\ "open" \notin {sock'[id].client, sock'[id].server}) =>
                SessionEnded(id)' \/ CloseDue(id)']_vars

\* the lines of a read that ends with a line break
ReadLines(data) == SubSeq(SplitLines(data), 1, Len(SplitLines(data)) - 1)

\* a read of whole command lines, none of which ends with a brace
CompleteLines(data) ==
    /\ EndsWith(data, "\n")
    /\ \A i \in 1..Len(ReadLines(data)) : ~EndsWith(ReadLines(data)[i], "}")

\* the dispatch e of the last handler ends with its one write upstream, of
\* the single line given
WrittenLine(e, line) ==
    \E w \in 1..Len(trace) :
        /\ trace[w].k = "write" /\ trace[w].bus = "server" /\ trace[w].ev = e
        /\ \A i \in 1..Len(trace) : trace[i].ev = e => i <= w
        /\ \A i \in 1..Len(trace) : (trace[i].ev = e /\ trace[i].k = "write") => i = w
        /\ EndsWith(trace[w].data, line \o CRLF)
        /\ Cardinality(Occurrences(trace[w].data, "\n")) = 1

\* C24: a client read of k >= 1 whole command lines, none ending with a
\* brace, leads to exactly k dispatches, in the order of the lines: each
\* emits its events, then writes its one line upstream (after what the carry
\* buffer held, for the first), before the events of the next line are
\* emitted.  The handler's re-injection ends for every read of the model.
C24_OneDispatchPerLine ==
    (ClientRead /\ CompleteLines(last.data)) =>
        /\ Dispatches = 1..Len(ReadLines(last.data))
        /\ \A i \in 1..(Len(trace) - 1) : trace[i].ev <= trace[i + 1].ev
        /\ \A e \in Dispatches :
              /\ InOrder(NamesOf(e))
              /\ WrittenLine(e, ReadLines(last.data)[e])

\* a read of three command lines, the second a LIST, has been dispatched
\* three times and has registered a listing
C24_Witness ==
    /\ ClientRead
    /\ Len(ReadLines(last.data)) = 3
    /\ Dispatches = {1, 2, 3}
    /\ Has(proc, last.id)
    /\ WrittenTo(trace, "server") = last.data

\* what a map of the filter holds for a session: nothing, or one value
Held(m, id) == IF Has(m, id) THEN {m[id]} ELSE {}

\* C25: every accepted session gets the next value of the counter, one
\* above all IDs given before, which no session has had; the counter never
\* goes back; the filter keeps jobs and metadata maps under IDs of accepted
\* sessions only, and the entries under a session's ID are created, changed
\* and deleted only by handlers of that session.
C25_SessionIds ==
    [][/\ ID_COUNT' >= ID_COUNT
       /\ Accept =>
             /\ ID_COUNT' = ID_COUNT + 1
             /\ last'.id = ID_COUNT'
             /\ sock[ID_COUNT'] = [client |-> "none", server |-> "none"]
             /\ hist[ID_COUNT'] = hist'[ID_COUNT']
             /\ ~Has(proc, ID_COUNT') /\ ~Has(metadata, ID_COUNT')
       /\ DOMAIN proc' \cup DOMAIN metadata' \subseteq 1..ID_COUNT'
       /\ \A id \in Sessions :
             (Held(proc', id) # Held(proc, id) \/ Held(metadata', id) # Held(metadata, id))
                => last'.id = id /\ last'.kind # "accept"]_vars

\* both sessions have a listing job of their own, with different listings
C25_Witness ==
    /\ ID_COUNT = 2
    /\ Has(proc, 1) /\ Has(proc, 2)
    /\ DOMAIN proc[1].listings # DOMAIN proc[2].listings
    /\ Has(metadata, 1)

\* serverResponse leaves the world as it is, for an event of session id that
\* has write set and no result
Untouched(id, data) ==
    serverResponse([World(id) EXCEPT !.event.write = TRUE], id, data)
        = [World(id) EXCEPT !.event.write = TRUE]

\* C26: when a session that has no listing job reads from its server, also
\* while another session of the worker has a job, serverResponse leaves the
\* event and the filter's state as they are: no job and no metadata map
\* changes, and the read is written to the client at once and whole, as it
\* was read or as the capability rewriter left it (unless a listener that
\* ran before serverResponse raised an exception, which ends the dispatch).
C26_NoJobUntouched ==
    [][\A id \in Sessions :
          (ServerDispatch(id) /\ ~Has(proc, id)) =>
              /\ Untouched(id, last'.data)
              /\ proc' = proc /\ metadata' = metadata
              /\ ~crashed' =>
                    /\ WritesTo(trace', "client") \in
                          {<<last'.data>>,
                           <<ReplaceFirst(last'.data, "COMPRESS=DEFLATE ", "")>>}
                    /\ Writable(sock[id].client) =>
                          hist'[id].toClient \in
                            {hist[id].toClient \o last'.data,
                             hist[id].toClient
                                \o ReplaceFirst(last'.data, "COMPRESS=DEFLATE ", "")}]_vars

\* session 2, which has no listing job, has read the reply to its NOOP and
\* passed it to its client while session 1 has a listing job
C26_Witness ==
    /\ last.kind = "serverData" /\ last.id = 2
    /\ Contains(last.data, "OK Completed")
    /\ Has(proc, 1) /\ ~Has(proc, 2)
    /\ listeners.listening
    /\ trace # <<>>
    /\ hist[2].toClient = hist[2].fromServer

=============================================================================
